---- MODULE Spec2Model ----
(***************************************************************************)
(* A state-machine model of tsout (src/tsout.py): the command-line front   *)
(* end, run_with_ptys (pty allocation, fork, the select/read/emit loop,    *)
(* wait, drain, finally) and the child process seen through its two ptys.  *)
(***************************************************************************)
EXTENDS Integers, Sequences, FiniteSets, TLC

\* ------------------------------------------------------------------ bounds
MaxBytes == 3      \* bytes the child writes in one run (both streams together)
FmtBytes == 1      \* the same, in the runs that enumerate the display flags
MaxArgs  == 3      \* length of the command lines enumerated by SpecCli
MaxClock == 1      \* the last tick (of one microsecond) the clock reaches in SpecFmt
ClockBytes == 2    \* bytes the child writes in the runs of SpecClock
LiveBytes == 1     \* bytes the child writes in the runs of SpecLive

\* ------------------------------------------------------- program constants
stdout_parent == 3       \* first descriptor returned by pty.openpty()
stderr_parent == 5       \* third descriptor: always above stdout_parent
STDOUT_FILENO == 1       \* sys.stdout.fileno()
STDERR_FILENO == 2       \* sys.stderr.fileno()
ChunkSize     == 4096    \* os.read(fd, 4096)
EXIT_INTERRUPT == 130    \* sys.exit(130)
EXIT_HELP      == 1      \* sys.exit(1) after print_help
EXIT_USAGE     == 2      \* parser.error exits with status 2
SIGTERM        == 15
SIGINT         == 2

NL == "\n"
Bytes == {"a", NL}
Fds == {stdout_parent, stderr_parent}
Streams == {STDOUT_FILENO, STDERR_FILENO}
Flags == {"-T", "-u", "-v", "-C", "-s"}
Tokens == Flags \cup {"--", "cmd"}

VARIABLES
  argv,            \* sys.argv[1:]
  pc,              \* where the parent process is
  usage,           \* what the front end printed: "none", "error", "help"
  args,            \* the parsed namespace (T, u, v, color, s)
  cmd,             \* the child command
  isatty,          \* os.isatty(sys.stdin.fileno())
  old_settings,    \* "unset" or "saved"
  termAttrs,       \* the terminal's attributes: "orig" or "changed"
  restores,        \* how often the parent / the child ran tcsetattr
  ptys,            \* TRUE once the two pty pairs are allocated
  childpc,         \* "none", "branch", "running", "pyerr", "zombie", "reaped"
  childStatus,     \* how the child ended
  childBudget,     \* an upper bound on the bytes the child will still write
  sigterm,         \* TRUE once os.kill(pid, SIGTERM) ran
  slaveOpen,       \* per parent fd: is the pty's child side still open
  pending,         \* per parent fd: bytes written by the child, not yet read
  fds,             \* the wait set (a list)
  readable,        \* what is left of sorted(readable, reverse=True)
  cur,             \* the fd whose batch is between read and emit (0: none)
  buffers,         \* per parent fd: accumulation buffer
  line_in_progress,\* per parent fd
  clock,           \* the last value time.time() returned
  clockEnd,        \* the tick at which the clock stands when the run is over
  start_time,
  now,             \* the timestamp captured for the current batch
  wbuf,            \* per real stream: written, not yet flushed
  timeline,        \* what reached the real streams, in order
  received,        \* per parent fd: concatenation of the chunks read
  closes,          \* per parent fd: how often the parent closed it
  errored,         \* parent fds whose read raised OSError
  eofed,           \* parent fds whose read returned b''
  wakeSet,         \* the fds the select of the wake-up in progress returned
  wakeMark,        \* Len(timeline) when that wake-up began
  processed,       \* fds read so far in this wake-up, in order
  intAt,           \* pc at which the interrupt arrived ("none": no interrupt)
  drained,         \* TRUE once the final drain loop ran
  pendingExit,     \* the exit in flight through the finally block
  exit             \* how the wrapper ended

vars == <<argv, pc, usage, args, cmd, isatty, old_settings, termAttrs, restores,
          ptys, childpc, childStatus, childBudget, sigterm, slaveOpen, pending,
          fds, readable, cur, buffers, line_in_progress, clock, clockEnd, start_time,
          now,
          wbuf, timeline, received, closes, errored, eofed, wakeSet, wakeMark,
          processed, intAt, drained, pendingExit, exit>>

\* ----------------------------------------------------------------- helpers
Min(a, b) == IF a < b THEN a ELSE b
Range(s) == {s[i] : i \in 1..Len(s)}
Last(s) == s[Len(s)]

RECURSIVE SeqsUpTo(_, _)
SeqsUpTo(S, n) ==
  IF n = 0 THEN {<<>>}
  ELSE LET shorter == SeqsUpTo(S, n - 1)
       IN shorter \cup {Append(q, x) : q \in shorter, x \in S}

NotRunning == [kind |-> "running", code |-> 0]
Exited(n)  == [kind |-> "exit", code |-> n]
Killed(n)  == [kind |-> "signal", code |-> n]

\* ---------------------------------------------------------------- __main__
DefaultArgs == [T |-> FALSE, u |-> FALSE, v |-> FALSE, color |-> TRUE, s |-> FALSE]

\* one add_argument action applied to the namespace
StoreFlag(ns, f) ==
  CASE f = "-T" -> [ns EXCEPT !.T = TRUE]
    [] f = "-u" -> [ns EXCEPT !.u = TRUE]
    [] f = "-v" -> [ns EXCEPT !.v = TRUE]
    [] f = "-C" -> [ns EXCEPT !.color = FALSE]
    [] f = "-s" -> [ns EXCEPT !.s = TRUE]

\* parser.parse_known_args(): flags are consumed wherever they stand before the
\* first "--"; other words, and "--" with everything after it, are left over.
RECURSIVE parse_known_args(_, _, _)
parse_known_args(av, ns, extras) ==
  IF av = <<>> THEN [ns |-> ns, remaining |-> extras]
  ELSE IF Head(av) = "--" THEN [ns |-> ns, remaining |-> extras \o av]
  ELSE IF Head(av) \in Flags
       THEN parse_known_args(Tail(av), StoreFlag(ns, Head(av)), extras)
       ELSE parse_known_args(Tail(av), ns, Append(extras, Head(av)))

\* remaining.index('--')
RECURSIVE index(_, _)
index(s, x) == IF Head(s) = x THEN 1 ELSE 1 + index(Tail(s), x)

\* lines 221-224
CmdOf(remaining) ==
  IF "--" \in Range(remaining)
  THEN SubSeq(remaining, index(remaining, "--") + 1, Len(remaining))
  ELSE remaining

Parsed == parse_known_args(argv, DefaultArgs, <<>>)

\* ----------------------------------------------------- prefix construction
COLOR(fd)  == IF fd = stdout_parent THEN "ESC[1;97m" ELSE "ESC[1;93m"
FD_MAP(fd) == IF fd = stdout_parent THEN STDOUT_FILENO ELSE STDERR_FILENO
RESET      == "ESC[0m"

\* n printed in exactly w decimal digits
RECURSIVE Digits(_, _)
Digits(n, w) == IF w = 0 THEN "" ELSE Digits(n \div 10, w - 1) \o ToString(n % 10)

\* f"{x:.6f}" of a time given in microseconds
Fixed6(us) ==
  IF us < 0 THEN "-" \o ToString((0 - us) \div 1000000) \o "." \o Digits((0 - us) % 1000000, 6)
  ELSE ToString(us \div 1000000) \o "." \o Digits(us % 1000000, 6)

\* strftime('%Y-%m-%d %H:%M:%S.%f') in UTC, for instants in the epoch's first minute
UtcText(us) == "1970-01-01 00:00:" \o Digits(us \div 1000000, 2) \o "." \o Digits(us % 1000000, 6)

format_timestamp(ts) ==
  IF args.u THEN UtcText(ts)
  ELSE IF args.T THEN Fixed6(ts)
  ELSE Fixed6(ts - start_time)

\* ''.join(parts)
RECURSIVE Join(_)
Join(parts) == IF parts = <<>> THEN "" ELSE Head(parts) \o Join(Tail(parts))

\* the stream id placed after the timestamp instead of before it
format_prefix_id_last(fd, timestamp, color_enabled, verbose, space_delim) ==
  Join( (IF color_enabled THEN <<COLOR(fd)>> ELSE <<>>)
     \o <<format_timestamp(timestamp)>>
     \o (IF verbose THEN <<IF space_delim THEN " " ELSE "@", ToString(FD_MAP(fd))>> ELSE <<>>)
     \o <<IF space_delim THEN " " ELSE ": ">>
     \o (IF color_enabled THEN <<RESET>> ELSE <<>>) )

\* lines 78-93
format_prefix(fd, timestamp, color_enabled, verbose, space_delim) ==
  Join( (IF color_enabled THEN <<COLOR(fd)>> ELSE <<>>)
     \o (IF verbose THEN <<ToString(FD_MAP(fd)), IF space_delim THEN " " ELSE "@">> ELSE <<>>)
     \o <<format_timestamp(timestamp)>>
     \o <<IF space_delim THEN " " ELSE ": ">>
     \o (IF color_enabled THEN <<RESET>> ELSE <<>>) )

\* ------------------------------------------------------------ line assembly
\* bytes.split(b'\n')
RECURSIVE split(_)
split(b) ==
  IF NL \notin Range(b) THEN <<b>>
  ELSE LET i == index(b, NL)
       IN <<SubSeq(b, 1, i - 1)>> \o split(SubSeq(b, i + 1, Len(b)))

\* a routing slip: each channel written to the other real stream
OutOfSwapped(fd) == IF fd = stdout_parent THEN STDERR_FILENO ELSE STDOUT_FILENO

\* out = sys.stdout.buffer if fd == stdout_parent else sys.stderr.buffer
OutOf(fd) == IF fd = stdout_parent THEN STDOUT_FILENO ELSE STDERR_FILENO

\* what a write puts on a real stream: a prefix, or data bytes one by one; t is
\* the instant captured for the batch that wrote it
PrefixItem(fd, prefix, ts) == [s |-> OutOf(fd), k |-> "prefix", v |-> prefix, t |-> ts]
DataItems(fd, bs, ts) == [i \in 1..Len(bs) |-> [s |-> OutOf(fd), k |-> "byte", v |-> bs[i], t |-> ts]]

\* the flag tested for every complete line but never cleared inside the loop
RECURSIVE WriteCompleteLinesKeepFlag(_, _, _, _, _)
WriteCompleteLinesKeepFlag(fd, complete_lines, lip, prefix, ts) ==
  IF complete_lines = <<>> THEN [w |-> <<>>, lip |-> FALSE]
  ELSE LET head == (IF ~lip THEN <<PrefixItem(fd, prefix, ts)>> ELSE <<>>)
                   \o DataItems(fd, Append(Head(complete_lines), NL), ts)
           rest == WriteCompleteLinesKeepFlag(fd, Tail(complete_lines), lip, prefix, ts)
       IN [w |-> head \o rest.w, lip |-> FALSE]

\* lines 161-165: the complete lines of a batch
RECURSIVE WriteCompleteLines(_, _, _, _, _)
WriteCompleteLines(fd, complete_lines, lip, prefix, ts) ==
  IF complete_lines = <<>> THEN [w |-> <<>>, lip |-> lip]
  ELSE LET head == (IF ~lip THEN <<PrefixItem(fd, prefix, ts)>> ELSE <<>>)
                   \o DataItems(fd, Append(Head(complete_lines), NL), ts)
           rest == WriteCompleteLines(fd, Tail(complete_lines), FALSE, prefix, ts)
       IN [w |-> head \o rest.w, lip |-> rest.lip]

\* the partial line written without recording that a line is now open
WritePartialLineFlagUnset(fd, partial_line, lip, prefix, ts) ==
  IF partial_line # <<>>
  THEN [w |-> <<PrefixItem(fd, prefix, ts)>> \o DataItems(fd, partial_line, ts), lip |-> lip]
  ELSE [w |-> <<>>, lip |-> lip]

\* lines 167-172: the trailing partial line
WritePartialLine(fd, partial_line, lip, prefix, ts) ==
  IF partial_line # <<>>
  THEN [w |-> <<PrefixItem(fd, prefix, ts)>> \o DataItems(fd, partial_line, ts), lip |-> TRUE]
  ELSE [w |-> <<>>, lip |-> lip]

\* the unterminated tail kept for the next batch, as a line buffer would
KeptPartialLine(partial_line) == partial_line

\* lines 170 and 172: buffers[fd] after the batch, whatever its partial line
ClearedBuffer(partial_line) == <<>>

\* time.time() called again for the partial line: its prefix is stamped later
\* than the prefixes of the batch's complete lines
EmitBatchRestamped(fd, buffer, lip, ts) ==
  LET lines == split(buffer)
      complete_lines == SubSeq(lines, 1, Len(lines) - 1)
      partial_line == lines[Len(lines)]
      c == WriteCompleteLines(fd, complete_lines, lip,
                              format_prefix(fd, ts, args.color, args.v, args.s), ts)
      p == WritePartialLine(fd, partial_line, c.lip,
                            format_prefix(fd, ts + 1, args.color, args.v, args.s), ts + 1)
  IN [w |-> c.w \o p.w, lip |-> p.lip]

\* lines 153-172 for one batch: what is written, and the new flag
EmitBatch(fd, buffer, lip, ts) ==
  LET lines == split(buffer)
      complete_lines == SubSeq(lines, 1, Len(lines) - 1)
      partial_line == lines[Len(lines)]
      prefix == format_prefix(fd, ts, args.color, args.v, args.s)
      c == WriteCompleteLines(fd, complete_lines, lip, prefix, ts)
      p == WritePartialLine(fd, partial_line, c.lip, prefix, ts)
  IN [w |-> c.w \o p.w, lip |-> p.lip]

\* sorted(readable): reverse=True forgotten
RECURSIVE SortedAscending(_)
SortedAscending(S) ==
  IF S = {} THEN <<>>
  ELSE LET m == CHOOSE x \in S : \A y \in S : x <= y
       IN <<m>> \o SortedAscending(S \ {m})

\* sorted(readable, reverse=True)
RECURSIVE SortedReverse(_)
SortedReverse(S) ==
  IF S = {} THEN <<>>
  ELSE LET m == CHOOSE x \in S : \A y \in S : y <= x
       IN <<m>> \o SortedReverse(S \ {m})

\* the descriptor closed but left in the wait set
ListRemoveForgotten(l, x) == l

\* fds.remove(fd)
RECURSIVE ListRemove(_, _)
ListRemove(l, x) ==
  IF l = <<>> THEN <<>>
  ELSE IF Head(l) = x THEN Tail(l)
  ELSE <<Head(l)>> \o ListRemove(Tail(l), x)

\* select.select(fds, [], []) reports a descriptor with bytes to read or whose
\* other side is closed
Ready(fd) == pending[fd] # <<>> \/ ~slaveOpen[fd]

\* the restore done only at the end of the normal path instead of in finally
RestoreAfterDrainOnly == isatty /\ old_settings = "saved" /\ drained

\* line 200
RestoreNeeded == isatty /\ old_settings = "saved"

\* the batch left in the BufferedWriter: no flush after the writes
flushSkipped(s, wb, tl) == [wbuf |-> wb, timeline |-> tl]

\* BufferedWriter.flush() on one real stream
flush(s, wb, tl) == [wbuf |-> [wb EXCEPT ![s] = <<>>], timeline |-> tl \o wb[s]]

\* a handler that gives up on every channel when one read fails
OnOSErrorDropAll(l, fd) == <<>>

\* lines 176-178: the wait set after a read raised OSError on fd
OnOSError(l, fd) == ListRemove(l, fd)

\* lines 189-196 for one channel of the final drain loop
DrainWrites(fd, ts) ==
  IF buffers[fd] # <<>>
  THEN (IF ~line_in_progress[fd]
        THEN <<PrefixItem(fd, format_prefix(fd, ts, args.color, args.v, args.s), ts)>>
        ELSE <<>>)
       \o DataItems(fd, Append(buffers[fd], NL), ts)
  ELSE <<>>

\* time.time(): the clock never runs backwards
TimeValues == {t \in clock..(clock + 1) : t <= clockEnd}

\* -------------------------------------------------------------------- state
cliVars   == <<argv, usage, args, cmd, isatty>>
ttyVars   == <<old_settings, termAttrs, restores>>
childVars == <<childpc, childStatus, childBudget, slaveOpen, pending>>
loopVars  == <<fds, readable, cur, buffers, line_in_progress, now, received,
               closes, errored, eofed, wakeSet, wakeMark, processed>>
outVars   == <<wbuf, timeline>>
endVars   == <<intAt, drained, pendingExit, exit>>

InitWith(argvs, ttys, budget, lastTick) ==
  /\ argv \in argvs
  /\ isatty \in ttys
  /\ childBudget = budget
  /\ clockEnd = lastTick
  /\ pc = "main"
  /\ usage = "none"
  /\ args = DefaultArgs
  /\ cmd = <<>>
  /\ old_settings = "unset"
  /\ termAttrs = "orig"
  /\ restores = [parent |-> 0, child |-> 0]
  /\ ptys = FALSE
  /\ childpc = "none"
  /\ childStatus = NotRunning
  /\ sigterm = FALSE
  /\ slaveOpen = [fd \in Fds |-> TRUE]
  /\ pending = [fd \in Fds |-> <<>>]
  /\ fds = <<>>
  /\ readable = <<>>
  /\ cur = 0
  /\ buffers = [fd \in Fds |-> <<>>]
  /\ line_in_progress = [fd \in Fds |-> FALSE]
  /\ clock = 0
  /\ start_time = 0
  /\ now = 0
  /\ wbuf = [s \in Streams |-> <<>>]
  /\ timeline = <<>>
  /\ received = [fd \in Fds |-> <<>>]
  /\ closes = [fd \in Fds |-> 0]
  /\ errored = {}
  /\ eofed = {}
  /\ wakeSet = {}
  /\ wakeMark = 0
  /\ processed = <<>>
  /\ intAt = "none"
  /\ drained = FALSE
  /\ pendingExit = NotRunning
  /\ exit = NotRunning

\* the command lines of the runs that explore the reader loop
RunArgvs == {<<>>, <<"-T", "-u">>, <<"cmd">>, <<"--">>}

\* every selection of the display flags, in a fixed order, before a command
FlagOrder == <<"-T", "-u", "-v", "-C", "-s">>
FmtArgvs == {Append(SelectSeq(FlagOrder, LAMBDA f : f \in S), "cmd") : S \in SUBSET Flags}

Init    == InitWith(RunArgvs, BOOLEAN, MaxBytes, 0)
InitCli == InitWith(SeqsUpTo(Tokens, MaxArgs), BOOLEAN, 0, 0)
InitFmt == InitWith(FmtArgvs, {TRUE}, FmtBytes, MaxClock)

\* ---------------------------------------------------------------- __main__
\* lines 212-226
Main ==
  /\ pc = "main"
  /\ args' = Parsed.ns
  /\ IF Parsed.ns.T /\ Parsed.ns.u
     THEN /\ usage' = "error"
          /\ exit' = Exited(EXIT_USAGE)
          /\ pc' = "exited"
          /\ cmd' = cmd
     ELSE IF Parsed.remaining = <<>>
     THEN /\ usage' = "help"
          /\ exit' = Exited(EXIT_HELP)
          /\ pc' = "exited"
          /\ cmd' = cmd
     ELSE /\ cmd' = CmdOf(Parsed.remaining)
          /\ pc' = "openpty"
          /\ UNCHANGED <<usage, exit>>
  /\ UNCHANGED <<argv, isatty, ttyVars, ptys, childVars, sigterm, loopVars, clock, clockEnd,
                 start_time, outVars, intAt, drained, pendingExit>>

\* ------------------------------------------------------------ run_with_ptys
\* lines 54-58
OpenPty ==
  /\ pc = "openpty"
  /\ ptys' = TRUE
  /\ old_settings' = IF isatty THEN "saved" ELSE old_settings
  /\ pc' = "fork"
  /\ UNCHANGED <<cliVars, termAttrs, restores, childVars, sigterm, loopVars, clock, clockEnd,
                 start_time, outVars, endVars>>

\* lines 54-55: pty.openpty() raises, outside the try block
OpenPtyFail ==
  /\ pc = "openpty"
  /\ exit' = Exited(1)
  /\ pc' = "exited"
  /\ UNCHANGED <<cliVars, ttyVars, ptys, childVars, sigterm, loopVars, clock, clockEnd,
                 start_time, outVars, intAt, drained, pendingExit>>

\* line 96, the parent's side
Fork ==
  /\ pc = "fork"
  /\ childpc' = "branch"
  /\ pc' = "parent_init"
  /\ UNCHANGED <<cliVars, ttyVars, ptys, childStatus, childBudget, slaveOpen, pending,
                 sigterm, loopVars, clock, clockEnd, start_time, outVars, endVars>>

\* line 96: os.fork() raises inside the try block
ForkFail ==
  /\ pc = "fork"
  /\ pendingExit' = Exited(1)
  /\ pc' = "finally"
  /\ UNCHANGED <<cliVars, ttyVars, ptys, childVars, sigterm, loopVars, clock, clockEnd,
                 start_time, outVars, intAt, drained, exit>>

\* lines 116-134
ParentInit ==
  /\ pc = "parent_init"
  /\ \E t \in TimeValues : clock' = t /\ start_time' = t
  /\ fds' = <<stdout_parent, stderr_parent>>
  /\ buffers' = [fd \in Fds |-> <<>>]
  /\ line_in_progress' = [fd \in Fds |-> FALSE]
  /\ pc' = "select"
  /\ UNCHANGED <<cliVars, ttyVars, ptys, childVars, sigterm, readable, cur, now,
                 received, closes, errored, eofed, wakeSet, wakeMark, processed,
                 clockEnd, outVars, endVars>>

\* the loop left as soon as one channel is closed: while len(fds) > 1
LoopEndEarly ==
  /\ pc = "select"
  /\ Len(fds) <= 1
  /\ pc' = "wait"
  /\ UNCHANGED <<cliVars, ttyVars, ptys, childVars, sigterm, loopVars, clock, clockEnd,
                 start_time, outVars, endVars>>

\* line 136, the loop condition is false
LoopEnd ==
  /\ pc = "select"
  /\ fds = <<>>
  /\ pc' = "wait"
  /\ UNCHANGED <<cliVars, ttyVars, ptys, childVars, sigterm, loopVars, clock, clockEnd,
                 start_time, outVars, endVars>>

\* lines 138-141
Select ==
  /\ pc = "select"
  /\ fds # <<>>
  /\ \E fd \in Range(fds) : Ready(fd)
  /\ wakeSet' = {fd \in Range(fds) : Ready(fd)}
  /\ readable' = SortedReverse(wakeSet')
  /\ wakeMark' = Len(timeline)
  /\ processed' = <<>>
  /\ pc' = "for"
  /\ UNCHANGED <<cliVars, ttyVars, ptys, childVars, sigterm, fds, cur, buffers,
                 line_in_progress, now, received, closes, errored, eofed, clock, clockEnd,
                 start_time, outVars, endVars>>

\* line 141, the for loop is exhausted
ForEnd ==
  /\ pc = "for"
  /\ readable = <<>>
  /\ wakeSet' = {}
  /\ wakeMark' = Len(timeline)
  /\ processed' = <<>>
  /\ pc' = "select"
  /\ UNCHANGED <<cliVars, ttyVars, ptys, childVars, sigterm, fds, readable, cur,
                 buffers, line_in_progress, now, received, closes, errored, eofed,
                 clock, clockEnd, start_time, outVars, endVars>>

\* lines 143, 149-152: a non-empty chunk
ReadData ==
  /\ pc = "for"
  /\ readable # <<>>
  /\ LET fd == Head(readable) IN
     /\ pending[fd] # <<>>
     /\ \E k \in 1..Min(Len(pending[fd]), ChunkSize) :
          LET chunk == SubSeq(pending[fd], 1, k) IN
          /\ pending' = [pending EXCEPT ![fd] = SubSeq(@, k + 1, Len(@))]
          /\ buffers' = [buffers EXCEPT ![fd] = @ \o chunk]
          /\ received' = [received EXCEPT ![fd] = @ \o chunk]
     /\ \E t \in TimeValues : clock' = t /\ now' = t
     /\ cur' = fd
     /\ processed' = Append(processed, fd)
  /\ readable' = Tail(readable)
  /\ pc' = "emit"
  /\ UNCHANGED <<cliVars, ttyVars, ptys, childpc, childStatus, childBudget, slaveOpen,
                 sigterm, fds, line_in_progress, closes, errored, eofed, wakeSet,
                 wakeMark, clockEnd, start_time, outVars, endVars>>

\* lines 143-147: a zero-length read
ReadEOF ==
  /\ pc = "for"
  /\ readable # <<>>
  /\ LET fd == Head(readable) IN
     /\ pending[fd] = <<>>
     /\ ~slaveOpen[fd]
     /\ fds' = ListRemove(fds, fd)
     /\ closes' = [closes EXCEPT ![fd] = @ + 1]
     /\ eofed' = eofed \cup {fd}
     /\ processed' = Append(processed, fd)
  /\ readable' = Tail(readable)
  /\ UNCHANGED <<cliVars, ttyVars, ptys, childVars, sigterm, cur, buffers,
                 line_in_progress, now, received, errored, wakeSet, wakeMark, pc,
                 clock, clockEnd, start_time, outVars, endVars>>

\* lines 143, 176-178: os.read raises OSError; closing the parent side discards
\* what the pty still holds
ReadError ==
  /\ pc = "for"
  /\ readable # <<>>
  /\ LET fd == Head(readable) IN
     /\ fds' = OnOSError(fds, fd)
     /\ closes' = [closes EXCEPT ![fd] = @ + 1]
     /\ errored' = errored \cup {fd}
     /\ processed' = Append(processed, fd)
     /\ pending' = [pending EXCEPT ![fd] = <<>>]
  /\ readable' = Tail(readable)
  /\ UNCHANGED <<cliVars, ttyVars, ptys, childpc, childStatus, childBudget, slaveOpen,
                 sigterm, cur, buffers,
                 line_in_progress, now, received, eofed, wakeSet, wakeMark, pc,
                 clock, clockEnd, start_time, outVars, endVars>>

\* lines 153-174: split, write, clear the buffer, flush
Emit ==
  /\ pc = "emit"
  /\ LET r == EmitBatch(cur, buffers[cur], line_in_progress[cur], now)
         written == [wbuf EXCEPT ![OutOf(cur)] = @ \o r.w]
         f == flush(OutOf(cur), written, timeline)
     IN /\ wbuf' = f.wbuf
        /\ timeline' = f.timeline
        /\ line_in_progress' = [line_in_progress EXCEPT ![cur] = r.lip]
  /\ buffers' = [buffers EXCEPT ![cur] = ClearedBuffer(Last(split(buffers[cur])))]
  /\ cur' = 0
  /\ pc' = "for"
  /\ UNCHANGED <<cliVars, ttyVars, ptys, childVars, sigterm, fds, readable, now,
                 received, closes, errored, eofed, wakeSet, wakeMark, processed,
                 clock, clockEnd, start_time, endVars>>

\* lines 199-201 run by the parent
FinallyBlock ==
  IF RestoreNeeded
  THEN /\ termAttrs' = "orig"
       /\ restores' = [restores EXCEPT !.parent = @ + 1]
  ELSE UNCHANGED <<termAttrs, restores>>

\* lines 180-182: KeyboardInterrupt inside the loop's try block: the handler
\* signals the child, sys.exit(130) leaves through the finally block
InterruptInLoop ==
  /\ pc \in {"select", "for", "emit"}
  /\ intAt' = pc
  /\ sigterm' = TRUE
  /\ pendingExit' = Exited(EXIT_INTERRUPT)
  /\ FinallyBlock
  /\ exit' = pendingExit'
  /\ pc' = "exited"
  /\ UNCHANGED <<cliVars, old_settings, ptys, childVars, loopVars, clock, clockEnd, start_time,
                 outVars, drained>>

\* KeyboardInterrupt outside the loop's try block (lines 116-134, 185-197): no
\* handler: the exception leaves through the finally block and the interpreter
\* ends by SIGINT
InterruptOutside ==
  /\ pc \in {"parent_init", "wait", "drain"}
  /\ intAt' = pc
  /\ pendingExit' = Killed(SIGINT)
  /\ FinallyBlock
  /\ exit' = pendingExit'
  /\ pc' = "exited"
  /\ UNCHANGED <<cliVars, old_settings, ptys, childVars, sigterm, loopVars, clock, clockEnd,
                 start_time, outVars, drained>>

\* line 185
Wait ==
  /\ pc = "wait"
  /\ childpc = "zombie"
  /\ childpc' = "reaped"
  /\ pc' = "drain"
  /\ UNCHANGED <<cliVars, ttyVars, ptys, childStatus, childBudget, slaveOpen, pending,
                 sigterm, loopVars, clock, clockEnd, start_time, outVars, endVars>>

\* lines 188-197, then the function returns and the script ends with status 0
Drain ==
  /\ pc = "drain"
  /\ \E t \in TimeValues :
       /\ clock' = (IF \E fd \in Fds : buffers[fd] # <<>> THEN t ELSE clock)
       /\ timeline' = timeline \o DrainWrites(stdout_parent, clock')
                               \o DrainWrites(stderr_parent, clock')
  /\ drained' = TRUE
  /\ pendingExit' = Exited(0)
  /\ pc' = "finally"
  /\ UNCHANGED <<cliVars, ttyVars, ptys, childVars, sigterm, loopVars, clockEnd,
                 start_time, wbuf, intAt, exit>>

\* lines 199-201 in the parent, then the process ends
Finally ==
  /\ pc = "finally"
  /\ FinallyBlock
  /\ exit' = pendingExit
  /\ pc' = "exited"
  /\ UNCHANGED <<cliVars, old_settings, ptys, childVars, sigterm, loopVars, clock, clockEnd,
                 start_time, outVars, intAt, drained, pendingExit>>

\* ---------------------------------------------------------------- the child
ChildAlive == childpc \in {"branch", "running", "pyerr"}

\* lines 98-112: os.execvp succeeds
ChildExec ==
  /\ childpc = "branch"
  /\ cmd # <<>>
  /\ childpc' = "running"
  /\ UNCHANGED <<cliVars, pc, ttyVars, ptys, childStatus, childBudget, slaveOpen,
                 pending, sigterm, loopVars, clock, clockEnd, start_time, outVars, endVars>>

\* line 112: cmd[0] raises IndexError or os.execvp raises OSError; the exception
\* leaves the child through the finally block (lines 199-201) and the interpreter
\* prints a traceback on the child's stderr and exits 1
ChildExecFail ==
  /\ childpc = "branch"
  /\ IF RestoreNeeded
     THEN /\ termAttrs' = "orig"
          /\ restores' = [restores EXCEPT !.child = @ + 1]
     ELSE UNCHANGED <<termAttrs, restores>>
  /\ childpc' = "pyerr"
  /\ UNCHANGED <<cliVars, pc, old_settings, ptys, childStatus, childBudget, slaveOpen,
                 pending, sigterm, loopVars, clock, clockEnd, start_time, outVars, endVars>>

\* the child writes one byte to one of its streams
ChildWrite ==
  /\ pc # "exited"
  /\ childBudget > 0
  /\ \E fd \in Fds, b \in Bytes :
       /\ \/ childpc = "running"
          \/ childpc = "pyerr" /\ fd = stderr_parent
       /\ slaveOpen[fd]
       /\ closes[fd] = 0
       /\ pending' = [pending EXCEPT ![fd] = Append(@, b)]
  /\ childBudget' = childBudget - 1
  /\ UNCHANGED <<cliVars, pc, ttyVars, ptys, childpc, childStatus, slaveOpen, sigterm,
                 loopVars, clock, clockEnd, start_time, outVars, endVars>>

\* the child closes one of its streams and keeps running
ChildClose ==
  /\ pc # "exited"
  /\ childpc = "running"
  /\ \E fd \in Fds :
       /\ slaveOpen[fd]
       /\ slaveOpen' = [slaveOpen EXCEPT ![fd] = FALSE]
  /\ UNCHANGED <<cliVars, pc, ttyVars, ptys, childpc, childStatus, childBudget, pending,
                 sigterm, loopVars, clock, clockEnd, start_time, outVars, endVars>>

\* the child changes the attributes of the terminal it shares with the wrapper
ChildTty ==
  /\ pc # "exited"
  /\ childpc = "running"
  /\ isatty
  /\ termAttrs = "orig"
  /\ termAttrs' = "changed"
  /\ UNCHANGED <<cliVars, pc, old_settings, restores, ptys, childVars, sigterm,
                 loopVars, clock, clockEnd, start_time, outVars, endVars>>

\* the child ends on its own
ChildExit ==
  /\ pc # "exited"
  /\ childpc \in {"running", "pyerr"}
  /\ \E st \in {0, 1} :
       /\ childpc = "pyerr" => st = 1
       /\ childStatus' = Exited(st)
  /\ childpc' = "zombie"
  /\ slaveOpen' = [fd \in Fds |-> FALSE]
  /\ childBudget' = 0
  /\ UNCHANGED <<cliVars, pc, ttyVars, ptys, pending, sigterm, loopVars,
                 clock, clockEnd, start_time, outVars, endVars>>

\* the forwarded SIGTERM ends the child
ChildKilled ==
  /\ sigterm
  /\ ChildAlive
  /\ childStatus' = Killed(SIGTERM)
  /\ childpc' = "zombie"
  /\ slaveOpen' = [fd \in Fds |-> FALSE]
  /\ childBudget' = 0
  /\ UNCHANGED <<cliVars, pc, ttyVars, ptys, pending, sigterm, loopVars,
                 clock, clockEnd, start_time, outVars, endVars>>

\* ------------------------------------------------------------ specifications
Launch ==
  \/ Main \/ OpenPty \/ OpenPtyFail \/ Fork \/ ForkFail \/ Finally

Next ==
  \/ Main \/ OpenPty \/ OpenPtyFail \/ Fork \/ ForkFail
  \/ ParentInit \/ LoopEnd \/ Select \/ ForEnd
  \/ ReadData \/ ReadEOF \/ ReadError \/ Emit
  \/ InterruptInLoop \/ InterruptOutside
  \/ Wait \/ Drain \/ Finally
  \/ ChildExec \/ ChildExecFail \/ ChildWrite \/ ChildClose \/ ChildTty
  \/ ChildExit \/ ChildKilled

\* one run of the wrapper, the child writing up to MaxBytes bytes, all within one
\* tick of the clock
Spec == Init /\ [][Next]_vars

\* the front end up to the fork, over every command line of up to MaxArgs words
SpecCli == InitCli /\ [][Launch]_vars

\* one run under every selection of the display flags, the clock advancing,
\* standard input a terminal
SpecFmt == InitFmt /\ [][Next]_vars

\* ---------------------------------------------------------------- properties
\* the items written to one real stream, in order
StreamItems(s) == SelectSeq(timeline, LAMBDA it : it.s = s)

\* the bytes on one real stream with the prefixes removed
Payload(s) ==
  LET q == SelectSeq(timeline, LAMBDA it : it.s = s /\ it.k = "byte")
  IN [i \in 1..Len(q) |-> q[i].v]

\* no batch is cut short between its read and its writes
NoBatchCut == pc # "emit" /\ intAt # "emit"

\* C1: whatever the chunking, the bytes on real stdout (real stderr) with the
\* prefixes removed are the concatenation, in read order, of the chunks read from
\* the stdout (stderr) channel: nothing dropped, duplicated, reordered or sent to
\* the other stream. Stated at every point where no batch is between its read
\* and its writes.
C1_RoundTrip ==
  NoBatchCut =>
    /\ Payload(STDOUT_FILENO) = received[stdout_parent]
    /\ Payload(STDERR_FILENO) = received[stderr_parent]

\* C1's case: a run that ended normally after one stdout line arrived in more
\* than one batch (two prefixes were written for it)
C1_Witness ==
  /\ pc = "exited"
  /\ intAt = "none"
  /\ received[stdout_parent] = <<"a", "a", NL>>
  /\ Payload(STDOUT_FILENO) = <<"a", "a", NL>>
  /\ Len(SelectSeq(StreamItems(STDOUT_FILENO), LAMBDA it : it.k = "prefix")) = 2

\* the byte item at position i of q begins a line: no byte precedes it, or the
\* nearest byte before it is a line break
FirstOfLine(q, i) ==
  LET before == {j \in 1..(i - 1) : q[j].k = "byte"}
  IN before = {} \/ q[CHOOSE j \in before : \A m \in before : m <= j].v = NL

\* C2: on each real stream every line carries exactly one prefix, immediately
\* before the line's first byte, and no prefix stands anywhere else (never in
\* the middle of a line), however many batches the line was split across.
C2_OnePrefixPerLine ==
  \A s \in Streams :
    LET q == StreamItems(s) IN
    \A i \in 1..Len(q) :
      /\ (q[i].k = "byte" /\ FirstOfLine(q, i)) => (i > 1 /\ q[i - 1].k = "prefix")
      /\ q[i].k = "prefix" => (i < Len(q) /\ q[i + 1].k = "byte" /\ FirstOfLine(q, i + 1))

\* C3: in a wake-up that reported both channels, stderr's batch is read, written
\* and flushed before stdout's batch is read, and everything the wake-up writes
\* to stderr precedes everything it writes to stdout.
C3_StderrFirst ==
  wakeSet = Fds =>
    /\ stdout_parent \in Range(processed) =>
         /\ processed[1] = stderr_parent
         /\ cur # stderr_parent
         /\ wbuf[STDERR_FILENO] = <<>>
    /\ \A i, j \in (wakeMark + 1)..Len(timeline) :
         (timeline[i].s = STDOUT_FILENO /\ timeline[j].s = STDERR_FILENO) => j < i

\* C3's case: a wake-up on both channels is over and wrote to both streams
C3_Witness ==
  /\ wakeSet = Fds
  /\ pc = "for"
  /\ readable = <<>>
  /\ \E i, j \in (wakeMark + 1)..Len(timeline) :
       timeline[i].s = STDERR_FILENO /\ timeline[j].s = STDOUT_FILENO

\* C4: a run that was not interrupted and waited for its child ends with the
\* child's exit status.
C4_ExitStatusIsChilds ==
  (pc = "exited" /\ intAt = "none" /\ childpc = "reaped") => exit = childStatus

\* C5: an interrupt that arrives while the wrapper is blocked in the readiness
\* wait, is processing a batch, or is waiting for the child after both channels
\* closed makes it signal the child and end with status 130, the final drain
\* not run.
C5_InterruptForwarded ==
  intAt \in {"select", "for", "emit", "wait"} =>
    /\ sigterm
    /\ exit = Exited(EXIT_INTERRUPT)
    /\ ~drained

BeforeSeparator(av) ==
  IF "--" \in Range(av) THEN SubSeq(av, 1, index(av, "--") - 1) ELSE av
AfterSeparator(av) ==
  IF "--" \in Range(av) THEN SubSeq(av, index(av, "--") + 1, Len(av)) ELSE <<>>

BothTimeFlags == {"-T", "-u"} \subseteq Range(BeforeSeparator(argv))
NoCommandSupplied ==
  IF "--" \in Range(argv) THEN AfterSeparator(argv) = <<>>
  ELSE \A i \in 1..Len(argv) : argv[i] \in Flags

\* C7: a command line with both -T and -u, or with no child command (nothing but
\* flags, or nothing after "--"), never gets ptys or a child; the wrapper reports
\* the usage problem and exits non-zero, with status 1 for the missing command.
C7_UsageErrorsLaunchNothing ==
  (BothTimeFlags \/ NoCommandSupplied) =>
    /\ ~ptys
    /\ childpc = "none"
    /\ pc = "exited" =>
         /\ usage # "none"
         /\ exit.kind = "exit" /\ exit.code # 0
         /\ ~BothTimeFlags => exit = Exited(1)

\* C8: after a normal run, a channel whose bytes ended mid-line has had one line
\* break appended on its real stream; a channel whose bytes ended on a line
\* break (or that delivered nothing) has had nothing added.
C8_FinalLineTerminated ==
  (pc = "exited" /\ intAt = "none" /\ drained) =>
    \A fd \in Fds :
      Payload(FD_MAP(fd)) =
        IF received[fd] # <<>> /\ Last(received[fd]) # NL
        THEN Append(received[fd], NL)
        ELSE received[fd]

LoopPcs == {"select", "for", "emit"}

\* C9: a read error closes only the channel it happened on (removed from the
\* wait set, closed once, nothing surfaced); the other channel stays in the wait
\* set until its own end, what it delivers is emitted in full, and the run ends
\* the normal way (loop left when both are closed, child waited for, exit 0).
C9_ReadErrorIsLocal ==
  /\ \A fd \in errored : fd \notin Range(fds) /\ closes[fd] = 1
  /\ pc \in LoopPcs => Range(fds) = Fds \ (errored \cup eofed)
  /\ (errored # {} /\ NoBatchCut) =>
       /\ Payload(STDOUT_FILENO) = received[stdout_parent]
       /\ Payload(STDERR_FILENO) = received[stderr_parent]
  /\ (errored # {} /\ pc = "exited" /\ intAt = "none") =>
       /\ fds = <<>>
       /\ childpc = "reaped"
       /\ drained
       /\ exit = Exited(0)

\* C9's case: the stderr read failed, stdout was still served afterwards (its
\* batch was read and written in the same wake-up, after the failure)
C9_Witness ==
  /\ errored = {stderr_parent}
  /\ processed = <<stderr_parent, stdout_parent>>
  /\ pc = "for"
  /\ fds = <<stdout_parent>>
  /\ Len(timeline) > wakeMark
  /\ Last(timeline).s = STDOUT_FILENO

\* the prefix items written so far
PrefixItems == SelectSeq(timeline, LAMBDA it : it.k = "prefix")

ColorStartOf(s) == IF s = STDOUT_FILENO THEN "ESC[1;97m" ELSE "ESC[1;93m"

\* C10 as stated: color start iff color; the stream id followed by the field
\* delimiter iff verbose; the timestamp; the field delimiter (space in
\* space-delimited mode, colon-space otherwise); color reset iff color.
C10_PrefixLayoutAsStated ==
  \A i \in 1..Len(PrefixItems) :
    LET it == PrefixItems[i]
        delim == IF args.s THEN " " ELSE ": "
    IN it.v = (IF args.color THEN ColorStartOf(it.s) ELSE "")
              \o (IF args.v THEN ToString(it.s) \o delim ELSE "")
              \o format_timestamp(it.t)
              \o delim
              \o (IF args.color THEN "ESC[0m" ELSE "")

\* C10 amended: as stated, except that the stream id is followed by a single
\* space in space-delimited mode and by "@" otherwise; with -v -s and no color a
\* stderr prefix reads "2 <timestamp> ".
C10_PrefixLayout ==
  \A i \in 1..Len(PrefixItems) :
    LET it == PrefixItems[i] IN
    /\ it.v = (IF args.color THEN ColorStartOf(it.s) ELSE "")
              \o (IF args.v THEN ToString(it.s) \o (IF args.s THEN " " ELSE "@") ELSE "")
              \o format_timestamp(it.t)
              \o (IF args.s THEN " " ELSE ": ")
              \o (IF args.color THEN "ESC[0m" ELSE "")
    /\ (args.v /\ args.s /\ ~args.color /\ it.s = STDERR_FILENO) =>
         it.v = "2 " \o format_timestamp(it.t) \o " "

\* C10's case: a verbose, colon-delimited, colored stderr prefix was written at
\* a later tick than the start of the run
C10_Witness ==
  /\ args.v /\ ~args.s /\ args.color /\ ~args.T /\ ~args.u
  /\ \E i \in 1..Len(PrefixItems) :
       /\ PrefixItems[i].s = STDERR_FILENO
       /\ PrefixItems[i].v = "ESC[1;93m2@0.000001: ESC[0m"

\* the command lines of the runs that explore the timestamps: the three modes
ClockArgvs == {<<"cmd">>, <<"-T", "cmd">>, <<"-u", "cmd">>}
InitClock == InitWith(ClockArgvs, {TRUE}, ClockBytes, MaxClock)

\* one run in each timestamp mode, the clock advancing between its samples
SpecClock == InitClock /\ [][Next]_vars

\* the prefixes written to one real stream, in order
StreamPrefixes(s) == SelectSeq(timeline, LAMBDA it : it.s = s /\ it.k = "prefix")

\* C11: with a clock that never runs backwards, the timestamps of the successive
\* prefixes of one channel never decrease, and all the prefixes a batch writes
\* carry the one timestamp captured for that batch.
C11_TimestampsMonotone ==
  /\ \A s \in Streams :
       LET q == StreamPrefixes(s) IN
       \A i, j \in 1..Len(q) : i < j => q[i].t <= q[j].t
  /\ (pc = "for" /\ Len(timeline) > wakeMark) =>
       \A i \in (wakeMark + 1)..Len(timeline) :
         timeline[i].s = Last(timeline).s => timeline[i].t = now
  /\ \A i \in 1..Len(timeline) : start_time <= timeline[i].t /\ timeline[i].t <= clock

\* C11's case: one batch wrote two prefixes (a complete line, then a partial
\* one) at a tick later than the start of the run
C11_Witness ==
  /\ pc = "for"
  /\ start_time = 0
  /\ now = 1
  /\ received[stdout_parent] = <<NL, "a">>
  /\ Len(StreamPrefixes(STDOUT_FILENO)) = 2
  /\ Len(timeline) = wakeMark + 4

\* C11's other case: two batches of one channel were stamped at different ticks
C11_WitnessTwoBatches ==
  /\ Len(StreamPrefixes(STDERR_FILENO)) = 2
  /\ StreamPrefixes(STDERR_FILENO)[1].t = 0
  /\ StreamPrefixes(STDERR_FILENO)[2].t = 1

\* ---------------------------------------------------------------------- C12
\* what one step appended to the output
Appended == SubSeq(timeline', Len(timeline) + 1, Len(timeline'))
IsNL(it) == it.k = "byte" /\ it.v = NL
BytesOf(w) ==
  LET q == SelectSeq(w, LAMBDA it : it.k = "byte") IN [i \in 1..Len(q) |-> q[i].v]

\* the batch step: lines 153-174 ran to their end
BatchStep == pc = "emit" /\ pc' = "for"

\* C12: in one batch holding at least one complete line, the first complete line
\* carries a prefix exactly when the channel's flag was false on entry, every
\* later complete line carries a prefix, a prefix stands only at the start of a
\* line, every complete line ends in exactly one line break (the bytes written
\* are the bytes read), and the flag is clear after the last complete line
C12_CompleteLines ==
  [][ BatchStep =>
      LET lip == line_in_progress[cur]
          buf == buffers[cur]
          n == Cardinality({i \in 1..Len(buf) : buf[i] = NL})
          w == Appended
          nlpos == {i \in 1..Len(w) : IsNL(w[i])}
          lastNL == CHOOSE i \in nlpos : \A j \in nlpos : j <= i
      IN n > 0 =>
           /\ (w[1].k = "prefix") <=> ~lip
           /\ \A i \in nlpos : i < lastNL => w[i + 1].k = "prefix"
           /\ \A i \in 2..lastNL : w[i].k = "prefix" => IsNL(w[i - 1])
           /\ Cardinality(nlpos) = n
           /\ BytesOf(w) = buf
           /\ \A i \in 1..Len(w) : w[i].s = OutOf(cur)
           /\ Last(buf) = NL => ~line_in_progress'[cur]
    ]_vars

\* a batch of two complete lines arrived while a line was open: "a", then NL NL
C12_Witness ==
  /\ pc = "for"
  /\ received[stdout_parent] = <<"a", NL, NL>>
  /\ Len(StreamItems(STDOUT_FILENO)) = 5
  /\ Len(timeline) = wakeMark + 3
  /\ ~line_in_progress[stdout_parent]

\* ---------------------------------------------------------------------- C13
BetweenBatches == pc \in {"select", "wait", "drain", "finally", "exited"} /\ intAt # "emit"

\* C13: between batches, a channel's flag is true exactly when something has been
\* written to the channel's stream and the last byte written there is not a line
\* break
C13_FlagTracksLastByte ==
  BetweenBatches =>
    \A fd \in Fds :
      LET q == StreamItems(OutOf(fd))
      IN line_in_progress[fd] <=> (q # <<>> /\ ~IsNL(Last(q)))

\* one channel stopped in mid-line while the other ended its line
C13_Witness ==
  /\ pc = "select"
  /\ line_in_progress[stdout_parent]
  /\ received[stdout_parent] = <<"a">>
  /\ ~line_in_progress[stderr_parent]
  /\ received[stderr_parent] = <<"a", NL>>

\* ---------------------------------------------------------------------- C14
\* C14: when the wrapper is about to wait or read again, every batch read so far
\* is fully on its stream (nothing left in a buffer of the wrapper), and while a
\* batch is being emitted it is the only one outstanding: so the batches reach
\* the output in the order they were read
C14_BatchFlushedBeforeNextRead ==
  /\ pc \in {"select", "for"} =>
       /\ \A s \in Streams : wbuf[s] = <<>>
       /\ \A fd \in Fds : buffers[fd] = <<>> /\ Payload(OutOf(fd)) = received[fd]
  /\ pc = "emit" =>
       /\ \A s \in Streams : wbuf[s] = <<>>
       /\ \A fd \in Fds : Payload(OutOf(fd)) \o buffers[fd] = received[fd]
       /\ \A fd \in Fds \ {cur} : buffers[fd] = <<>>

\* three batches read alternately from the two channels, all of them written
C14_Witness ==
  /\ pc = "select"
  /\ received[stdout_parent] = <<"a", "a">>
  /\ received[stderr_parent] = <<"a">>
  /\ BytesOf(timeline) = <<"a", "a", "a">>
  /\ [i \in 1..Len(PrefixItems) |-> PrefixItems[i].s]
       = <<STDOUT_FILENO, STDERR_FILENO, STDOUT_FILENO>>

\* ---------------------------------------------------------------------- C15
\* the steps of the wrapper itself, interrupts apart
ParentStep ==
  \/ Main \/ OpenPty \/ OpenPtyFail \/ Fork \/ ForkFail
  \/ ParentInit \/ LoopEnd \/ Select \/ ForEnd
  \/ ReadData \/ ReadEOF \/ ReadError \/ Emit
  \/ Wait \/ Drain \/ Finally

\* the steps by which the child starts and ends
ChildEnds == ChildExec \/ ChildExecFail \/ ChildExit \/ ChildKilled

InitLive == InitWith({<<"cmd">>}, {TRUE}, LiveBytes, 0)

\* the wrapper keeps running and the child eventually exits
SpecLive == InitLive /\ [][Next]_vars /\ WF_vars(ParentStep) /\ WF_vars(ChildEnds)

PastLoop == pc \in {"wait", "drain"} \/ drained

\* C15: the wrapper is past the loop only with both channels closed, each by a
\* zero-length read or a read error; it ends normally only after reaping the
\* child; and every run in which the wrapper keeps running and the child
\* eventually exits ends
C15_LoopUntilBothClosed ==
  /\ [](PastLoop => /\ fds = <<>>
                    /\ errored \cup eofed = Fds
                    /\ \A fd \in Fds : closes[fd] = 1)
  /\ []((pc = "exited" /\ drained) => childpc = "reaped")
  /\ <>(pc = "exited")

\* a normal end: one channel closed by a zero-length read, the other by an error
C15_Witness ==
  /\ pc = "exited"
  /\ drained
  /\ eofed # {}
  /\ errored # {}
  /\ childpc = "reaped"

\* ---------------------------------------------------------------------- C16
\* C16: the terminal attributes are restored by the parent only, once on every
\* path out of the try block, and never by the child
C16_RestoreOnceByParentOnly ==
  /\ restores.child = 0
  /\ restores.parent <= 1
  /\ (pc = "exited" /\ RestoreNeeded) => restores.parent = 1

\* the parent's half of C16, which the code keeps
C16_ParentRestoresOnce ==
  /\ restores.parent <= 1
  /\ (pc = "exited" /\ RestoreNeeded) => restores.parent = 1

\* ---------------------------------------------------------------------- C17
\* C17: outside the emission of a batch every per-channel buffer is empty, so the
\* final drain has nothing to write: after it the output is what it was when the
\* loop's last wake-up ended
C17_BuffersEmptyBetweenBatches ==
  /\ (pc # "emit" /\ intAt # "emit") => \A fd \in Fds : buffers[fd] = <<>>
  /\ pc = "drain" => \A fd \in Fds : DrainWrites(fd, clock) = <<>>
  /\ drained => Len(timeline) = wakeMark /\ \A s \in Streams : wbuf[s] = <<>>

\* the drain ran after output that ended in mid-line, and added nothing to it
C17_Witness ==
  /\ drained
  /\ received[stdout_parent] = <<"a", NL, "a">>
  /\ BytesOf(timeline) = <<"a", NL, "a">>
  /\ line_in_progress[stdout_parent]

\* ---------------------------------------------------------------------- C18
\* C18: a parent-side descriptor is closed at most once, and once closed it is no
\* longer in the wait set, nor among the descriptors still to be read in the
\* current wake-up, nor the one being emitted; the wait set holds no duplicate
C18_ClosedOnce ==
  /\ \A fd \in Fds :
       /\ closes[fd] <= 1
       /\ closes[fd] = 1 =>
            /\ fd \notin Range(fds)
            /\ fd \notin Range(readable)
            /\ cur # fd
       /\ closes[fd] = 1 <=> fd \in errored \cup eofed
  /\ \A i, j \in 1..Len(fds) : fds[i] = fds[j] => i = j
  /\ \A i, j \in 1..Len(readable) : readable[i] = readable[j] => i = j
  /\ Range(readable) \subseteq wakeSet

\* one channel closed while the other is still read
C18_Witness ==
  /\ pc = "emit"
  /\ cur = stdout_parent
  /\ closes[stderr_parent] = 1
  /\ fds = <<stdout_parent>>

====
